---- MODULE Spec2Model ----
(***************************************************************************)
(* Telegram-RSS-Bot: the feed-polling and deduplicated-delivery engine of  *)
(* src/main.py (check_feeds, post_to_channel, the command handlers and the *)
(* 5-minute timer of main()), the chat commands of src/commands.py, and    *)
(* the persisted JSON files.                                               *)
(*                                                                         *)
(* The program is a single asyncio event loop.  A coroutine runs without   *)
(* interruption from one await to the next, so every action below is the   *)
(* code between two awaits of one task: the await of asyncio.gather        *)
(* (main.py:190, 220) and the await of bot.send_message (main.py:203, 231) *)
(* are the points where another task can run.                              *)
(***************************************************************************)
EXTENDS Integers, Sequences, FiniteSets, TLC

(***************************************************************************)
(* Bounds of the model.                                                    *)
(***************************************************************************)
\* (subscriber, feed url) pairs held in user_feeds
MaxPairs == 2
\* the clock counts the 5-minute periods of the timer; it stops at MaxTime
MaxTime == 2

None == "none"

\* private chats (update.message.from_user.id, as a string: main.py:104)
Users == {"u1", "u2"}
\* chats of type group / supergroup / channel (main.py:86)
Groups == {"g"}
Chats == Users \cup Groups

\* feed addresses
Urls == {"A"}

\* The tasks that run check_feeds: the update handler (updates are handled one
\* at a time) and a task created by the timer (main.py:267).
Handler == "handler"
TimerTasks == {"timer"}
Tasks == TimerTasks \cup {Handler}

(***************************************************************************)
(* Entries and feed documents.  An entry of a parsed feed has a link and   *)
(* may have an id.                                                         *)
(***************************************************************************)
Entry1 == [id |-> "e1", link |-> "l1"]

\* main.py:198, 228   entry.get('id', entry.link)
entry_id(entry) == IF entry.id # None THEN entry.id ELSE entry.link

EntryIds == {"e1"}

\* the documents a feed address can serve, newest entry first
FeedDocs == {<<Entry1>>}

ErrorResult == [feed |-> <<>>, error |-> TRUE]

\* a faulty variant: a fetch without the timeout, on a server that never answers
fetch_feed_NoTimeout(session_open) == {}

\* main.py:167-177   fetch_feed: the (feed, error) pairs one call can return.
\* session.get on a closed aiohttp session raises RuntimeError("Session is
\* closed") inside the try, which the except clause turns into an error value.
fetch_feed(session_open) ==
    IF session_open
    THEN {ErrorResult} \cup {[feed |-> d, error |-> FALSE] : d \in FeedDocs}
    ELSE {ErrorResult}

VARIABLES
    user_feeds,      \* main.py:28  dict user -> list of urls, in insertion order
    posted_entries,  \* main.py:29  dict chat -> (entry id -> timestamp); 0: absent
    channel_id,      \* main.py:30
    disk,            \* the JSON files: feeds, posted, channel
    clock,           \* datetime.utcnow(), in timer periods
    cyc,             \* per task: the check_feeds call it runs
    delivered,       \* history: successful bot.send_message calls per (chat, entry id), counted up to 2
    user_settings,   \* commands.py:146  bot_data['user_settings']: chat -> update_interval
    jobs,            \* the repeating jobs that are scheduled: chat, interval, which job it is, next run
    reply,           \* the last reply_text of update_every or of manual_check of commands.py
    pending          \* the chat whose manual_check of commands.py awaits the check (commands.py:121)

vars == <<user_feeds, posted_entries, channel_id, disk, clock, cyc, delivered,
          user_settings, jobs, reply, pending>>

\* the state of main.py and the state only commands.py touches
mainvars == <<user_feeds, posted_entries, channel_id, clock, cyc, delivered>>

cmdvars == <<user_settings, jobs, reply, pending>>

(***************************************************************************)
(* user_feeds is a Python dict of lists; iteration follows insertion       *)
(* order, so it is a sequence of [user, feeds] records.                    *)
(***************************************************************************)
HasUser(uf, u) == \E k \in 1..Len(uf) : uf[k].user = u

IndexOfUser(uf, u) == CHOOSE k \in 1..Len(uf) : uf[k].user = u

FeedsOf(uf, u) == IF HasUser(uf, u) THEN uf[IndexOfUser(uf, u)].feeds ELSE <<>>

InSeq(x, s) == \E k \in 1..Len(s) : s[k] = x

RemoveAt(s, k) == [n \in 1..(Len(s) - 1) |-> IF n < k THEN s[n] ELSE s[n + 1]]

\* list.remove(x): drops the first occurrence
RemoveFirst(s, x) == RemoveAt(s, CHOOSE k \in 1..Len(s) : s[k] = x /\ \A m \in 1..(k - 1) : s[m] # x)

RECURSIVE Pairs(_)
\* main.py:186-188 and main.py:192   [(u, f) for u, feeds in user_feeds.items() for f in feeds]
Pairs(uf) ==
    IF uf = <<>> THEN <<>>
    ELSE [k \in 1..Len(Head(uf).feeds) |-> <<Head(uf).user, Head(uf).feeds[k]>>] \o Pairs(Tail(uf))

Min(a, b) == IF a < b THEN a ELSE b

(***************************************************************************)
(* The dedup ledger.                                                       *)
(***************************************************************************)
EmptyLedger == [c \in Chats |-> [e \in EntryIds |-> 0]]

\* faulty variants of the membership test: one that never finds an entry, one
\* that finds an entry recorded for any chat
IsPosted_Never(pe, chat, eid) == FALSE

IsPosted_AnyChat(pe, chat, eid) == \E c \in Chats : pe[c][eid] # 0

\* main.py:201, 229   entry_id in posted_entries[user_id]
IsPosted(pe, chat, eid) == pe[chat][eid] # 0

\* main.py:204, 234   posted_entries[user_id][entry_id] = current_time
Record(pe, chat, eid, ts) == [pe EXCEPT ![chat][eid] = ts]

(***************************************************************************)
(* One call of check_feeds.                                                *)
(*   pc       where the coroutine is suspended, or how it ended            *)
(*   time     current_time (main.py:182)                                   *)
(*   tasks    the (user, url) pairs the fetches were created for           *)
(*   results  what asyncio.gather returned (main.py:190)                   *)
(*   zipped   the (user, url) pairs the loop pairs the results with        *)
(*   i, j     the result and the entry whose send_message is awaited       *)
(*   mirror   whether post_to_channel was called (main.py:207)             *)
(*   cn, cresults, ci, cj   the same for post_to_channel                   *)
(* A call that has ended keeps only how it ended: "done" (it returned) or  *)
(* "failed" (an exception left it; raised is the (chat, entry id) of the   *)
(* send_message call that raised it).                                      *)
(***************************************************************************)
IdleCycle ==
    [pc |-> "idle", time |-> 0, tasks |-> <<>>, results |-> <<>>, zipped |-> <<>>,
     i |-> 0, j |-> 0, mirror |-> FALSE, cn |-> 0, cresults |-> <<>>, ci |-> 0, cj |-> 0,
     raised |-> <<>>]

Running(t) == cyc[t].pc \in {"gather", "send", "chan_gather", "chan_send"}

\* an empty dict
NoSettings == [c \in {} |-> 0]

NoJobs == {}

NoReply == [chat |-> None, args |-> <<>>, kind |-> None, interval |-> 0, next |-> 0]

Init ==
    /\ user_feeds = <<>>
    /\ posted_entries = EmptyLedger
    /\ channel_id = None
    /\ disk = [feeds |-> <<>>, posted |-> EmptyLedger, channel |-> None, settings |-> NoSettings]
    /\ clock = 1
    /\ cyc = [t \in Tasks |-> IdleCycle]
    /\ user_settings = NoSettings
    /\ jobs = NoJobs
    /\ reply = NoReply
    /\ pending = None
    /\ delivered = [c \in Chats |-> [e \in EntryIds |-> 0]]

RECURSIVE NextSend_StopAtError(_, _, _, _, _)
\* a faulty variant of the loop: a failed fetch ends the loop
NextSend_StopAtError(results, zipped, pe, i, j) ==
    IF i > Min(Len(results), Len(zipped)) THEN <<0, 0>>
    ELSE IF results[i].error THEN <<0, 0>>
    ELSE IF j > Len(results[i].feed) THEN NextSend_StopAtError(results, zipped, pe, i + 1, 1)
    ELSE IF pe[zipped[i][1]][entry_id(results[i].feed[j])] = 0 THEN <<i, j>>
    ELSE NextSend_StopAtError(results, zipped, pe, i, j + 1)

RECURSIVE NextSend(_, _, _, _, _)
\* main.py:192-201   the loop of check_feeds from result i, entry j on: the next
\* (result, entry) for which bot.send_message is called, <<0, 0>> when the loop ends
NextSend(results, zipped, pe, i, j) ==
    IF i > Min(Len(results), Len(zipped)) THEN <<0, 0>>
    ELSE IF results[i].error THEN NextSend(results, zipped, pe, i + 1, 1)
    ELSE IF j > Len(results[i].feed) THEN NextSend(results, zipped, pe, i + 1, 1)
    ELSE IF ~IsPosted(pe, zipped[i][1], entry_id(results[i].feed[j])) THEN <<i, j>>
    ELSE NextSend(results, zipped, pe, i, j + 1)

RECURSIVE ChanNextSend(_, _, _, _, _)
\* main.py:222-229   the loop of post_to_channel
ChanNextSend(results, pe, chan, i, j) ==
    IF i > Len(results) THEN <<0, 0>>
    ELSE IF results[i].error THEN ChanNextSend(results, pe, chan, i + 1, 1)
    ELSE IF j > Len(results[i].feed) THEN ChanNextSend(results, pe, chan, i + 1, 1)
    ELSE IF ~IsPosted(pe, chan, entry_id(results[i].feed[j])) THEN <<i, j>>
    ELSE ChanNextSend(results, pe, chan, i, j + 1)

\* a faulty variant: nothing is written
save_posted_entries_Skipped(pe) == UNCHANGED disk

\* main.py:65-68   save_posted_entries
save_posted_entries(pe) == disk' = [disk EXCEPT !.posted = pe]

\* main.py:210-211   the end of check_feeds
Finish(t, c, pe) ==
    /\ cyc' = [cyc EXCEPT ![t] = [IdleCycle EXCEPT !.pc = "done", !.mirror = c.mirror]]
    /\ posted_entries' = pe
    /\ save_posted_entries(pe)

\* main.py:206-208 and 213-220   after the loop the session of line 184 is closed;
\* post_to_channel creates its fetches on it and awaits them
AfterLoop(t, c, pe) ==
    IF channel_id # None
    THEN LET n == Len(Pairs(user_feeds)) IN
         IF n > 0
         THEN /\ cyc' = [cyc EXCEPT ![t] = [c EXCEPT !.pc = "chan_gather", !.mirror = TRUE, !.cn = n]]
              /\ posted_entries' = pe
              /\ UNCHANGED disk
         ELSE Finish(t, [c EXCEPT !.mirror = TRUE], pe)
    ELSE Finish(t, c, pe)

\* main.py:192-210   check_feeds from (i, j) on, up to its next await
Continue(t, c, pe, i, j) ==
    LET pos == NextSend(c.results, c.zipped, pe, i, j) IN
    IF pos # <<0, 0>>
    THEN /\ cyc' = [cyc EXCEPT ![t] = [c EXCEPT !.pc = "send", !.i = pos[1], !.j = pos[2]]]
         /\ posted_entries' = pe
         /\ UNCHANGED disk
    ELSE AfterLoop(t, c, pe)

\* main.py:179-190   check_feeds up to the await of asyncio.gather; gather of
\* no tasks is done at once
check_feeds(t) ==
    LET c == [IdleCycle EXCEPT !.time = clock', !.tasks = Pairs(user_feeds)] IN
    IF c.tasks = <<>>
    THEN Continue(t, c, posted_entries, 1, 1)
    ELSE /\ cyc' = [cyc EXCEPT ![t] = [c EXCEPT !.pc = "gather"]]
         /\ UNCHANGED <<posted_entries, disk>>

\* main.py:190-192   asyncio.gather returns; the results are zipped with the
\* pairs user_feeds holds now
GatherReturns(t, rs) ==
    /\ UNCHANGED cmdvars
    /\ cyc[t].pc = "gather"
    /\ Continue(t, [cyc[t] EXCEPT !.results = rs, !.zipped = Pairs(user_feeds)],
                posted_entries, 1, 1)
    /\ UNCHANGED <<user_feeds, channel_id, clock, delivered>>

GatherDone(t) == \E rs \in [1..Len(cyc[t].tasks) -> fetch_feed(TRUE)] : GatherReturns(t, rs)

SendTarget(c) == <<c.zipped[c.i][1], entry_id(c.results[c.i].feed[c.j])>>

Bump(d, chat, eid) == [d EXCEPT ![chat][eid] = Min(@ + 1, 2)]

\* main.py:203-204   bot.send_message returns: the entry is recorded and the loop goes on
SendOk(t) ==
    /\ UNCHANGED cmdvars
    /\ cyc[t].pc = "send"
    /\ LET c == cyc[t]
           u == SendTarget(c)[1]
           e == SendTarget(c)[2]
       IN /\ Continue(t, c, Record(posted_entries, u, e, c.time), c.i, c.j + 1)
          /\ delivered' = Bump(delivered, u, e)
    /\ UNCHANGED <<user_feeds, channel_id, clock>>

\* a faulty variant: the entry is recorded although bot.send_message raised
SendFail_Records(t) ==
    /\ UNCHANGED cmdvars
    /\ cyc[t].pc = "send"
    /\ cyc' = [cyc EXCEPT ![t] = [IdleCycle EXCEPT !.pc = "failed", !.raised = SendTarget(cyc[t])]]
    /\ posted_entries' = Record(posted_entries, SendTarget(cyc[t])[1], SendTarget(cyc[t])[2],
                                cyc[t].time)
    /\ UNCHANGED <<user_feeds, channel_id, disk, clock, delivered>>

\* main.py:203   bot.send_message raises: nothing catches it, check_feeds ends there
SendFail(t) ==
    /\ UNCHANGED cmdvars
    /\ cyc[t].pc = "send"
    /\ cyc' = [cyc EXCEPT ![t] = [IdleCycle EXCEPT !.pc = "failed", !.raised = SendTarget(cyc[t])]]
    /\ UNCHANGED <<user_feeds, posted_entries, channel_id, disk, clock, delivered>>

\* main.py:220-229   the fetches of post_to_channel return
ChanGatherDone(t) ==
    /\ UNCHANGED cmdvars
    /\ cyc[t].pc = "chan_gather"
    /\ \E rs \in [1..cyc[t].cn -> fetch_feed(FALSE)] :
          LET pos == ChanNextSend(rs, posted_entries, channel_id, 1, 1) IN
          IF pos # <<0, 0>>
          THEN /\ cyc' = [cyc EXCEPT ![t] = [@ EXCEPT !.pc = "chan_send", !.cresults = rs,
                                                       !.ci = pos[1], !.cj = pos[2]]]
               /\ UNCHANGED <<posted_entries, disk>>
          ELSE Finish(t, [cyc[t] EXCEPT !.cresults = rs], posted_entries)
    /\ UNCHANGED <<user_feeds, channel_id, clock, delivered>>

\* main.py:231-234   bot.send_message to the channel returns: the entry is
\* recorded for the channel and the loop goes on.  ChanGatherDone never leaves a
\* call at "chan_send", because every fetch on the closed session fails, so this
\* step and the next are not among the steps of Next.
ChanSendOk(t) ==
    /\ UNCHANGED cmdvars
    /\ cyc[t].pc = "chan_send"
    /\ LET c == cyc[t]
           e == entry_id(c.cresults[c.ci].feed[c.cj])
           pe == Record(posted_entries, channel_id, e, clock)
           pos == ChanNextSend(c.cresults, pe, channel_id, c.ci, c.cj + 1)
       IN /\ delivered' = Bump(delivered, channel_id, e)
          /\ IF pos # <<0, 0>>
             THEN /\ cyc' = [cyc EXCEPT ![t] = [c EXCEPT !.ci = pos[1], !.cj = pos[2]]]
                  /\ posted_entries' = pe
                  /\ UNCHANGED disk
             ELSE Finish(t, c, pe)
    /\ UNCHANGED <<user_feeds, channel_id, clock>>

\* main.py:231   bot.send_message to the channel raises
ChanSendFail(t) ==
    /\ UNCHANGED cmdvars
    /\ cyc[t].pc = "chan_send"
    /\ cyc' = [cyc EXCEPT ![t] = [IdleCycle EXCEPT !.pc = "failed", !.mirror = TRUE,
                    !.raised = <<channel_id, entry_id(cyc[t].cresults[cyc[t].ci].feed[cyc[t].cj])>>]]
    /\ UNCHANGED <<user_feeds, posted_entries, channel_id, disk, clock, delivered>>

\* main.py:236-240, 267   another 5 minutes have passed: the job creates a
\* task running check_feeds
Tick(t) ==
    /\ UNCHANGED cmdvars
    /\ t \in TimerTasks
    /\ ~Running(t)
    /\ clock' = Min(clock + 1, MaxTime)
    /\ check_feeds(t)
    /\ UNCHANGED <<user_feeds, channel_id, delivered>>

\* updates are handled one at a time: no handler starts while one is running
HandlerFree == ~Running(Handler)

\* main.py:243-247   /check
manual_check ==
    /\ UNCHANGED cmdvars
    /\ HandlerFree
    /\ clock' = clock
    /\ check_feeds(Handler)
    /\ UNCHANGED <<user_feeds, channel_id, delivered>>

(***************************************************************************)
(* The command handlers of main.py (registered at main.py:259-263).        *)
(***************************************************************************)
\* what follows /add: nothing, a feed address, a YouTube channel page
AddArgs == {"", "A", "youtube.com/x"}

\* youtube.py:42-71   convert_to_rss_feed: None when it raises ValueError
\* ("Invalid YouTube channel URL format.")
convert_to_rss_feed(arg) == IF arg = "youtube.com/x" THEN None ELSE arg

\* main.py:111   'youtube.com' in feed_url
IsYouTube(arg) == arg = "youtube.com/x"

\* main.py:155-165   validate_feed_url: whether the address answered 200
validate_feed_url(url) == {TRUE, FALSE}

\* main.py:54-57   save_feeds
save_feeds(uf) == disk' = [disk EXCEPT !.feeds = uf]

\* main.py:124-127
AppendFeed(uf, user, url) ==
    IF HasUser(uf, user)
    THEN [uf EXCEPT ![IndexOfUser(uf, user)].feeds = Append(@, url)]
    ELSE Append(uf, [user |-> user, feeds |-> <<url>>])

\* main.py:146-148
RemoveFeed(uf, user, url) ==
    LET k == IndexOfUser(uf, user)
        rest == RemoveFirst(uf[k].feeds, url)
    IN IF rest = <<>> THEN RemoveAt(uf, k) ELSE [uf EXCEPT ![k].feeds = rest]

\* main.py:102-130   /add
add_feed(user, arg) ==
    /\ UNCHANGED cmdvars
    /\ HandlerFree
    /\ Len(Pairs(user_feeds)) < MaxPairs
    /\ \E valid \in validate_feed_url(arg) :
          LET url == IF IsYouTube(arg) THEN convert_to_rss_feed(arg) ELSE arg
              accepted == arg # "" /\ url # None /\ (IsYouTube(arg) \/ valid)
          IN IF accepted
             THEN /\ user_feeds' = AppendFeed(user_feeds, user, url)
                  /\ save_feeds(user_feeds')
             ELSE UNCHANGED <<user_feeds, disk>>
    /\ UNCHANGED <<posted_entries, channel_id, clock, cyc, delivered>>

\* main.py:141-153   /delete
delete_feed(user, url) ==
    /\ UNCHANGED cmdvars
    /\ HandlerFree
    /\ IF HasUser(user_feeds, user) /\ InSeq(url, FeedsOf(user_feeds, user))
       THEN /\ user_feeds' = RemoveFeed(user_feeds, user, url)
            /\ save_feeds(user_feeds')
       ELSE UNCHANGED <<user_feeds, disk>>
    /\ UNCHANGED <<posted_entries, channel_id, clock, cyc, delivered>>

\* main.py:77-81   save_channel_id
save_channel_id(ch) == disk' = [disk EXCEPT !.channel = ch]

\* main.py:83-100   /start
start(chat) ==
    /\ UNCHANGED cmdvars
    /\ HandlerFree
    /\ IF chat \in Groups
       THEN /\ channel_id' = chat
            /\ save_channel_id(channel_id')
       ELSE UNCHANGED <<channel_id, disk>>
    /\ UNCHANGED <<user_feeds, posted_entries, clock, cyc, delivered>>

Next ==
    \/ \E t \in TimerTasks : Tick(t)
    \/ manual_check
    \/ \E t \in Tasks : GatherDone(t)
    \/ \E t \in Tasks : SendOk(t)
    \/ \E t \in Tasks : SendFail(t)
    \/ \E t \in Tasks : ChanGatherDone(t)
    \/ \E u \in Users, a \in AddArgs : add_feed(u, a)
    \/ \E u \in Users, a \in Urls : delete_feed(u, a)
    \/ \E c \in Chats : start(c)

Spec == Init /\ [][Next]_vars

(***************************************************************************)
(* The same program when poll cycles never overlap: a cycle starts only    *)
(* while no other is running.                                              *)
(***************************************************************************)
NoCycleRunning == \A t \in Tasks : ~Running(t)

SerialTick(t) == NoCycleRunning /\ Tick(t)

SerialManualCheck == NoCycleRunning /\ manual_check

NextSerial ==
    \/ \E t \in TimerTasks : SerialTick(t)
    \/ SerialManualCheck
    \/ \E t \in Tasks : GatherDone(t)
    \/ \E t \in Tasks : SendOk(t)
    \/ \E t \in Tasks : SendFail(t)
    \/ \E t \in Tasks : ChanGatherDone(t)
    \/ \E u \in Users, a \in AddArgs : add_feed(u, a)
    \/ \E u \in Users, a \in Urls : delete_feed(u, a)
    \/ \E c \in Chats : start(c)

SpecSerial == Init /\ [][NextSerial]_vars

(***************************************************************************)
(* The program, with cycles that do not overlap, and with the progress its *)
(* awaits have.  Every fetch has a timeout of 10 seconds (main.py:170), so *)
(* asyncio.gather returns; a call of bot.send_message returns or raises.   *)
(* Nothing is assumed about which of the two, nor about new cycles being   *)
(* started.                                                                *)
(***************************************************************************)
Progress ==
    \A t \in Tasks :
        /\ WF_vars(GatherDone(t))
        /\ WF_vars(SendOk(t) \/ SendFail(t))
        /\ WF_vars(ChanGatherDone(t))

SpecLive == Init /\ [][NextSerial]_vars /\ Progress

(***************************************************************************)
(* The program in the surroundings of the at-least-once claim: one         *)
(* subscriber keeps its sources (nobody deletes), every fetch succeeds,    *)
(* every delivery to that subscriber succeeds while deliveries to others   *)
(* may fail, and the timer keeps starting cycles.                          *)
(***************************************************************************)
Favoured == "u2"

FetchesSucceed(t) ==
    \E rs \in [1..Len(cyc[t].tasks) -> fetch_feed(TRUE) \ {ErrorResult}] : GatherReturns(t, rs)

SendFailOther(t) == SendFail(t) /\ SendTarget(cyc[t])[1] # Favoured

NextFavoured ==
    \/ \E t \in TimerTasks : SerialTick(t)
    \/ SerialManualCheck
    \/ \E t \in Tasks : FetchesSucceed(t)
    \/ \E t \in Tasks : SendOk(t)
    \/ \E t \in Tasks : SendFailOther(t)
    \/ \E t \in Tasks : ChanGatherDone(t)
    \/ \E u \in Users, a \in AddArgs : add_feed(u, a)
    \/ \E c \in Chats : start(c)

SpecFavoured ==
    /\ Init
    /\ [][NextFavoured]_vars
    /\ \A t \in TimerTasks : WF_vars(SerialTick(t))
    /\ \A t \in Tasks :
          /\ WF_vars(FetchesSucceed(t))
          /\ WF_vars(SendOk(t) \/ SendFailOther(t))
          /\ WF_vars(ChanGatherDone(t))

(***************************************************************************)
(* The program with restarts, again with poll cycles that do not overlap:  *)
(* the process is stopped while no poll cycle is running and main() runs   *)
(* again, reading the three JSON files.  The                               *)
(* user ids are strings (main.py:104, 134, 143) and come back as they were *)
(* saved.  The channel id is an integer (main.py:88): json.dump writes the *)
(* key of its bucket as a string, and after json.load the lookups with the *)
(* integer channel id do not find that bucket.                             *)
(***************************************************************************)
\* main.py:35-46, 59-63   load_posted_entries after save_posted_entries
load_posted_entries(saved) ==
    [c \in Chats |-> IF c \in Groups THEN [e \in EntryIds |-> 0] ELSE saved[c]]

\* main.py:249-254   load_feeds, load_posted_entries, load_channel_id
Restart ==
    /\ UNCHANGED cmdvars
    /\ NoCycleRunning
    /\ user_feeds' = disk.feeds
    /\ posted_entries' = load_posted_entries(disk.posted)
    /\ channel_id' = disk.channel
    /\ cyc' = [t \in Tasks |-> IdleCycle]
    /\ UNCHANGED <<disk, clock, delivered>>

NextRestart == NextSerial \/ Restart

SpecRestart == Init /\ [][NextRestart]_vars

(***************************************************************************)
(* /update of commands.py.  The handler works on bot_data and calls        *)
(* save_data and update_job_interval of the main module of its revision,   *)
(* which are described by the specification: save_data replaces the        *)
(* persisted documents, update_job_interval cancels the job of the chat    *)
(* and creates a new one with the given interval.                          *)
(***************************************************************************)
MaxJobs == 2       \* jobs created per chat

Digits == <<"0", "1", "2", "3", "4", "5", "6", "7", "8", "9">>

IsDigit(ch) == \E d \in 1..Len(Digits) : Digits[d] = ch

DigitValue(ch) == (CHOOSE d \in 1..Len(Digits) : Digits[d] = ch) - 1

RECURSIVE DecimalValue(_)
DecimalValue(ds) ==
    IF ds = <<>> THEN 0
    ELSE 10 * DecimalValue(SubSeq(ds, 1, Len(ds) - 1)) + DigitValue(ds[Len(ds)])

\* commands.py:142   int() of a word given as its characters: an optional sign
\* and decimal digits, ValueError (err) for anything else
int(word) ==
    LET signed == word # <<>> /\ word[1] \in {"+", "-"}
        body == IF signed THEN Tail(word) ELSE word
    IN IF body = <<>> \/ \E k \in 1..Len(body) : ~IsDigit(body[k])
       THEN [err |-> TRUE, val |-> 0]
       ELSE [err |-> FALSE,
             val |-> IF signed /\ word[1] = "-" THEN 0 - DecimalValue(body) ELSE DecimalValue(body)]

\* the words that follow /update
Words == {<<"a">>, <<"2", ".", "5">>, <<"-", "1">>, <<"0">>, <<"1">>, <<"+", "2">>}

\* context.args: no word, one word, or a second word after a number
ArgLists == {<<>>} \cup {<<w>> : w \in Words} \cup {<<<<"1">>, <<"a">>>>}

\* a faulty variant of the lower bound: zero passes
IntervalTooSmall_Negative(interval) == interval < 0

\* commands.py:143   interval < 1
IntervalTooSmall(interval) == interval < 1

\* save_data(user_feeds, posted_entries, channel_id, user_settings)
save_data(uf, pe, ch, us) ==
    disk' = [feeds |-> uf, posted |-> pe, channel |-> ch, settings |-> us]

Put(f, k, v) == [x \in DOMAIN f \cup {k} |-> IF x = k THEN v ELSE f[x]]

\* the jobs scheduled under the name of a chat
JobsOf(jb, chat) == {j \in jb : j.name = chat}

\* how many jobs were created for the chat: the jobs of a chat are numbered
JobsCreated(jb, chat) ==
    IF JobsOf(jb, chat) = {} THEN 0
    ELSE CHOOSE n \in {j.id : j \in JobsOf(jb, chat)} : \A j \in JobsOf(jb, chat) : j.id <= n

\* update_job_interval(context, chat_id, interval) at time now: the jobs of the
\* chat are cancelled and a new one is scheduled, first run one interval from now
update_job_interval(jb, chat, interval, now) ==
    (jb \ JobsOf(jb, chat))
        \cup {[name |-> chat, interval |-> interval, id |-> JobsCreated(jb, chat) + 1,
               due |-> now + interval]}

\* no handler of commands.py is running
CmdHandlerFree == HandlerFree /\ pending = None

\* commands.py:141-143   the try block raises IndexError or ValueError
Raises(args) ==
    IF Len(args) = 0 THEN TRUE
    ELSE IF int(args[1]).err THEN TRUE
    ELSE IntervalTooSmall(int(args[1]).val)

\* commands.py:138-158   /update
update_every(chat, args) ==
    /\ CmdHandlerFree
    /\ Raises(args) \/ JobsCreated(jobs, chat) < MaxJobs
    /\ IF Raises(args)
       THEN /\ reply' = [NoReply EXCEPT !.chat = chat, !.args = args, !.kind = "invalid"]
            /\ UNCHANGED <<user_settings, disk, jobs>>
       ELSE LET interval == int(args[1]).val IN
            /\ user_settings' = Put(user_settings, chat, interval)
            /\ save_data(user_feeds, posted_entries, channel_id, user_settings')
            /\ jobs' = update_job_interval(jobs, chat, interval, clock)
            /\ reply' = [NoReply EXCEPT !.chat = chat, !.args = args, !.kind = "set",
                                        !.interval = interval]
    /\ UNCHANGED <<mainvars, pending>>

\* a faulty variant: the setting of the chat is ignored
EffectiveInterval_Default(us, chat) == 30

\* commands.py:124-125   user_settings.get(chat_id, {}).get('update_interval', 30)
EffectiveInterval(us, chat) == IF chat \in DOMAIN us THEN us[chat] ELSE 30

\* commands.py:114-121   /check of commands.py up to the await of the check
\* (check_feeds_func is the check_feeds of the main module)
cmd_manual_check(chat) ==
    /\ CmdHandlerFree
    /\ JobsCreated(jobs, chat) < MaxJobs
    /\ pending' = chat
    /\ clock' = clock
    /\ check_feeds(Handler)
    /\ UNCHANGED <<user_feeds, channel_id, delivered, user_settings, jobs, reply>>

\* commands.py:121-136   the check has returned: the job of the chat is restarted
\* and the reply reports now + interval; an exception of the check leaves the
\* handler at line 121
manual_check_returns ==
    /\ pending # None
    /\ ~Running(Handler)
    /\ pending' = None
    /\ IF cyc[Handler].pc = "failed"
       THEN UNCHANGED <<jobs, reply>>
       ELSE LET interval == EffectiveInterval(user_settings, pending) IN
            /\ jobs' = update_job_interval(jobs, pending, interval, clock)
            /\ reply' = [NoReply EXCEPT !.chat = pending, !.kind = "checked",
                                        !.interval = interval, !.next = clock + interval]
    /\ UNCHANGED <<mainvars, disk, user_settings>>

\* a scheduled job has become due and runs; it stays scheduled, one interval
\* later (the poll cycle its callback runs is not followed here)
job_runs(j) ==
    /\ j \in jobs
    /\ clock >= j.due
    /\ jobs' = (jobs \ {j}) \cup {[j EXCEPT !.due = @ + j.interval]}
    /\ UNCHANGED <<mainvars, disk, user_settings, reply, pending>>

\* a minute passes
TimePasses ==
    /\ clock < MaxTime
    /\ clock' = clock + 1
    /\ UNCHANGED <<user_feeds, posted_entries, channel_id, cyc, delivered, disk, cmdvars>>

NextCmd ==
    \/ \E c \in Chats, a \in ArgLists : update_every(c, a)
    \/ \E c \in Chats : cmd_manual_check(c)
    \/ manual_check_returns
    \/ \E j \in jobs : job_runs(j)
    \/ TimePasses

SpecCmd == Init /\ [][NextCmd]_vars

(***************************************************************************)
(* Claims.                                                                 *)
(***************************************************************************)
\* task t enters the await of bot.send_message (main.py:203) in this step
CallIssued(t) == cyc'[t].pc = "send" /\ cyc'[t] # cyc[t]

\* the loop of check_feeds ends without an exception in this step
LoopEnds(t) == cyc[t].pc = "send" /\ cyc'[t].pc \in {"done", "chan_gather"}

OkResults(c) == {k \in 1..Min(Len(c.results), Len(c.zipped)) : ~c.results[k].error}

EntryIdsOf(feed) == {entry_id(feed[m]) : m \in 1..Len(feed)}

\* C1: once an entry id is in a subscriber's bucket it stays there while the
\* process runs, and no call of bot.send_message is issued for a (subscriber,
\* entry id) that is in the bucket at that moment: a cycle that starts after the
\* record never calls the sink for it again.
C1_IdempotentDelivery ==
    [][/\ \A c \in Chats, e \in EntryIds :
             posted_entries[c][e] # 0 => posted_entries'[c][e] # 0
       /\ \A t \in Tasks :
             CallIssued(t) =>
                posted_entries'[SendTarget(cyc'[t])[1]][SendTarget(cyc'[t])[2]] = 0]_vars

\* C1 witness: a cycle is past its first result, whose entry it skipped because
\* a cycle with an earlier time stamp had recorded it, and awaits its second send
C1_Witness ==
    \E t \in Tasks :
        /\ cyc[t].pc = "send" /\ cyc[t].i = 2
        /\ ~cyc[t].results[1].error
        /\ posted_entries[cyc[t].zipped[1][1]]["e1"] # 0
        /\ posted_entries[cyc[t].zipped[1][1]]["e1"] < cyc[t].time
        /\ delivered[cyc[t].zipped[1][1]]["e1"] = 1

\* C2: no (subscriber, entry id) is delivered successfully more than once, also
\* when two poll cycles overlap
C2_NoDoubleDelivery == \A c \in Chats, e \in EntryIds : delivered[c][e] <= 1

\* C3: at most one poll cycle is in progress at any time
C3_OneCycleAtATime == Cardinality({t \in Tasks : Running(t)}) <= 1

\* the loop of c, stopped at result c.i, has reached an entry e of subscriber u
ReachedBy(c, u, e) ==
    \E k \in OkResults(c) : k <= c.i /\ c.zipped[k][1] = u /\ e \in EntryIdsOf(c.results[k].feed)

FetchedBy(c, u, e) ==
    \E k \in OkResults(c) : c.zipped[k][1] = u /\ e \in EntryIdsOf(c.results[k].feed)

\* C4: a failed delivery of (S, E) records nothing, and when the next cycle that
\* fetched E for S ends, it has called the sink for (S, E) (checked for cycles
\* that do not overlap: x ended with the failure before y started)
C4_RetryNextCycle ==
    [][/\ \A t \in Tasks :
             (cyc[t].pc = "send" /\ cyc'[t].pc = "failed") => posted_entries' = posted_entries
       /\ \A x \in Tasks, y \in Tasks :
             (/\ x # y
              /\ cyc[x].pc = "failed"
              /\ cyc[y].pc = "send" /\ ~Running(y)'
              /\ FetchedBy(cyc[y], cyc[x].raised[1], cyc[x].raised[2])
              /\ posted_entries'[cyc[x].raised[1]][cyc[x].raised[2]] = 0)
             => ReachedBy(cyc[y], cyc[x].raised[1], cyc[x].raised[2])]_vars

\* every entry of every successful fetch of c is in the bucket of the
\* subscriber it was fetched for
AllDelivered(c, pe) ==
    \A k \in 1..Len(c.results) :
        ~c.results[k].error => \A e \in EntryIdsOf(c.results[k].feed) : pe[c.tasks[k][1]][e] # 0

\* C5: the return of the fetches never ends the cycle with an exception, and
\* when the loop of a cycle ends (no command having changed the subscriber map
\* while the fetches were awaited), every entry of every fetch that succeeded is
\* in its subscriber's bucket, whichever other fetches failed
C5_FetchFailureIsolated ==
    [][\A t \in Tasks :
        /\ cyc[t].pc = "gather" => cyc'[t].pc \in {"gather", "send", "chan_gather", "done"}
        /\ (LoopEnds(t) /\ cyc[t].tasks = cyc[t].zipped) => AllDelivered(cyc[t], posted_entries')
        /\ (cyc[t].pc = "gather" /\ cyc'[t].pc = "chan_gather" /\ cyc'[t].tasks = cyc'[t].zipped)
              => AllDelivered(cyc'[t], posted_entries')]_vars

\* C5 witness: the first fetch of a cycle failed, the second succeeded, and its
\* entry was delivered by this cycle, whose loop has ended
C5_Witness ==
    \E t \in Tasks :
        /\ cyc[t].pc = "chan_gather"
        /\ Len(cyc[t].results) = 2 /\ cyc[t].tasks = cyc[t].zipped
        /\ cyc[t].results[1].error /\ ~cyc[t].results[2].error
        /\ posted_entries[cyc[t].tasks[2][1]]["e1"] = cyc[t].time
        /\ posted_entries[cyc[t].tasks[1][1]]["e1"] = 0

\* C6: when cycles do not overlap, every subscriber gets an entry id at most
\* once, an id is in a subscriber's bucket exactly when it was delivered to
\* that subscriber, and when the loop of a cycle ends every entry fetched for a
\* subscriber has been delivered to that subscriber exactly once, whatever the
\* buckets of the other subscribers hold
C6_IndependentDedup ==
    [][/\ \A c \in Chats, e \in EntryIds :
             /\ delivered'[c][e] <= 1
             /\ posted_entries'[c][e] # 0 <=> delivered'[c][e] = 1
       /\ \A t \in Tasks :
             LoopEnds(t) =>
                \A k \in OkResults(cyc[t]) : \A e \in EntryIdsOf(cyc[t].results[k].feed) :
                    delivered'[cyc[t].zipped[k][1]][e] = 1]_vars

\* C6 witness: both subscribers hold the same source and each got its entry once
C6_Witness ==
    /\ Pairs(user_feeds) = <<<<"u1", "A">>, <<"u2", "A">>>>
    /\ delivered["u1"]["e1"] = 1 /\ delivered["u2"]["e1"] = 1
    /\ posted_entries["u1"]["e1"] # 0 /\ posted_entries["u2"]["e1"] # 0

\* C7: when post_to_channel has returned, every entry the cycle fetched is in
\* the bucket of the subscriber and in the bucket of the channel
C7_ChannelMirrored ==
    [][\A t \in Tasks :
         (cyc[t].pc = "chan_gather" /\ cyc'[t].pc = "done" /\ channel_id \in Chats) =>
            \A k \in OkResults(cyc[t]) : \A e \in EntryIdsOf(cyc[t].results[k].feed) :
                /\ posted_entries'[cyc[t].zipped[k][1]][e] # 0
                /\ posted_entries'[channel_id][e] # 0]_vars

\* C8: the time stamp of a recorded (subscriber, entry id) never changes
C8_FirstSeenWins ==
    [][\A c \in Chats, e \in EntryIds :
         posted_entries[c][e] # 0 => posted_entries'[c][e] = posted_entries[c][e]]_vars

\* C9: no bucket ever loses an entry id, restarts included
C9_LedgerAppendOnly ==
    [][\A c \in Chats, e \in EntryIds :
         posted_entries[c][e] # 0 => posted_entries'[c][e] # 0]_vars

\* what /update must reject: no argument, a first word that is not an integer,
\* an integer below 1
MustReject(args) ==
    \/ Len(args) = 0
    \/ int(args[1]).err
    \/ int(args[1]).val < 1

\* C10: an /update whose argument is missing, not an integer or below 1 gets
\* the invalid-interval reply and leaves the settings map, the persisted state
\* and every job as they were, so the interval in effect for the chat stays;
\* only an integer of at least 1 is ever accepted
C10_InvalidIntervalRejected ==
    [][(reply' # reply /\ reply'.kind \in {"set", "invalid"}) =>
        /\ MustReject(reply'.args) <=> reply'.kind = "invalid"
        /\ reply'.kind = "invalid" =>
              /\ user_settings' = user_settings
              /\ disk' = disk
              /\ jobs' = jobs
              /\ \A c \in Chats :
                    EffectiveInterval(user_settings', c) = EffectiveInterval(user_settings, c)
        /\ \A c \in DOMAIN user_settings' : user_settings'[c] >= 1
        /\ \A j \in jobs' : j.interval >= 1]_vars

\* C10 witness: /update 0 was rejected in a chat whose interval had been set to
\* 2 and whose job, the first created for it, is still there
C10_Witness ==
    /\ reply.kind = "invalid" /\ reply.args = <<<<"0">>>>
    /\ reply.chat \in DOMAIN user_settings
    /\ user_settings[reply.chat] = 2
    /\ disk.settings = user_settings
    /\ \E j \in jobs : j.name = reply.chat /\ j.interval = 2 /\ j.id = 1

\* C11: when /check of commands.py has run its poll cycle and replies, the job
\* that was scheduled for the chat is the same job as before (same number, same
\* interval, same next run), and the next update the reply reports is the next
\* run of that job
C11_TriggerKeepsTimer ==
    [][(reply' # reply /\ reply'.kind = "checked" /\ JobsOf(jobs, reply'.chat) # {}) =>
        /\ JobsOf(jobs', reply'.chat) = JobsOf(jobs, reply'.chat)
        /\ \A j \in JobsOf(jobs, reply'.chat) : reply'.next = j.due]_vars

\* C12: no subscriber's source list holds the same address twice
C12_SourcesUnique ==
    \A k \in 1..Len(user_feeds) :
        \A a \in 1..Len(user_feeds[k].feeds), b \in 1..Len(user_feeds[k].feeds) :
            user_feeds[k].feeds[a] = user_feeds[k].feeds[b] => a = b

\* the check_feeds call of task t ends in this step, by returning or by an exception
CycleEnds(t) == Running(t) /\ ~Running(t)'

\* C13: when a poll cycle ends, whether it returns or a delivery has failed, the
\* persisted ledger is the in-memory ledger, so every entry the cycle recorded
\* has been persisted (cycles that do not overlap)
C13_PersistAfterCycle ==
    [][\A t \in Tasks : CycleEnds(t) => disk'.posted = posted_entries']_vars

\* C14: with overlapping poll cycles, every write of the ledger writes the whole
\* in-memory ledger, which holds the records of every cycle: a cycle that
\* returns leaves the persisted ledger equal to the in-memory one, and no write
\* drops an entry id an earlier write had persisted
C14_NoLostUpdates ==
    [][/\ \A c \in Chats, e \in EntryIds :
             /\ disk.posted[c][e] # 0 => disk'.posted[c][e] # 0
             /\ disk'.posted[c][e] # 0 => posted_entries'[c][e] # 0
       /\ disk'.posted # disk.posted => disk'.posted = posted_entries'
       /\ \A t \in Tasks :
             (Running(t) /\ cyc'[t].pc = "done") => disk'.posted = posted_entries']_vars

\* C14 witness: a cycle of /check that started before the first tick is past
\* its first result, recorded at its time, and still awaits its second send;
\* the timer's cycle started and returned meanwhile, and the ledger it
\* persisted holds that record
C14_Witness ==
    \E t \in TimerTasks :
        /\ cyc[Handler].pc = "send" /\ cyc[Handler].i = 2 /\ cyc[Handler].time = 1
        /\ ~cyc[Handler].results[1].error
        /\ posted_entries[cyc[Handler].zipped[1][1]]["e1"] = 1
        /\ cyc[t].pc = "done"
        /\ disk.posted = posted_entries

\* C15: after every step of /update, /check and the jobs, a chat has at most one
\* scheduled job; its interval is the interval last accepted for the chat, 30
\* when none was; an accepted /update sets exactly the interval it was given;
\* and a job that runs is the last one created for its chat
C15_TimerReplacement ==
    [][/\ \A c \in Chats : Cardinality(JobsOf(jobs', c)) <= 1
       /\ \A j \in jobs' :
             j.interval = IF j.name \in DOMAIN user_settings' THEN user_settings'[j.name] ELSE 30
       /\ (reply' # reply /\ reply'.kind = "set") =>
             /\ user_settings'[reply'.chat] = int(reply'.args[1]).val
             /\ reply'.interval = user_settings'[reply'.chat]
       /\ \A j \in jobs, k \in jobs' :
             (k.name = j.name /\ k.id = j.id /\ k.due # j.due) => j.id = JobsCreated(jobs, j.name)]_vars

\* C15 witness: a chat set its interval to 2 and then sent /check: its only job
\* is the second created for it and has interval 2, while another chat, which
\* never set an interval, has a job with interval 30
C15_Witness ==
    /\ reply.kind = "checked"
    /\ reply.chat \in DOMAIN user_settings /\ user_settings[reply.chat] = 2
    /\ JobsOf(jobs, reply.chat) # {}
    /\ \A j \in JobsOf(jobs, reply.chat) : j.id = 2 /\ j.interval = 2
    /\ \E j \in jobs : j.name \notin DOMAIN user_settings /\ j.interval = 30

\* C16: every poll cycle that has started ends, by returning or by an
\* exception, whatever its fetches return
C16_CycleTerminates == \A t \in Tasks : Running(t) ~> ~Running(t)

\* C16 witness: a cycle has returned after delivering an entry it fetched and
\* after the fetches of post_to_channel, which all failed
C16_Witness ==
    \E t \in Tasks, c \in Chats :
        cyc[t].pc = "done" /\ cyc[t].mirror /\ delivered[c]["e1"] >= 1

\* C17: once the favoured subscriber has a source, whose fetches succeed and
\* whose deliveries to it succeed, the entry is eventually recorded in its
\* bucket, even when deliveries to other subscribers keep failing
C17_AtLeastOnce ==
    HasUser(user_feeds, Favoured) ~> (posted_entries[Favoured]["e1"] # 0)

\* bot.send_message of task t returns in this step: the entry is delivered
Delivers(t) == cyc[t].pc = "send" /\ cyc'[t] # cyc[t] /\ cyc'[t].pc # "failed"

\* C18: every entry a poll cycle delivers to a subscriber comes from a fetch of
\* an address that was in that subscriber's list when the cycle created its
\* fetches, also when /add and /delete run while the fetches are awaited
C18_NoMisroutedDelivery ==
    [][\A t \in Tasks :
         Delivers(t) =>
            \E k \in 1..Len(cyc[t].tasks) :
                cyc[t].tasks[k] = <<SendTarget(cyc[t])[1], cyc[t].tasks[cyc[t].i][2]>>]_vars

\* C19: every entry id in a bucket was delivered to that chat before, and an id
\* enters a bucket only in the step in which the bot.send_message call for that
\* chat and id returns
C19_RecordedImpliesDelivered ==
    [][\A c \in Chats, e \in EntryIds :
         /\ posted_entries'[c][e] # 0 => delivered'[c][e] >= 1
         /\ (posted_entries[c][e] = 0 /\ posted_entries'[c][e] # 0) =>
               \E t \in Tasks : Delivers(t) /\ SendTarget(cyc[t]) = <<c, e>>]_vars

\* C19 witness: a cycle delivered and recorded the entry for one subscriber and
\* was ended by the failed delivery to another, for whom nothing is recorded
C19_Witness ==
    \E t \in Tasks, c \in Chats :
        /\ cyc[t].pc = "failed" /\ cyc[t].raised # <<>>
        /\ posted_entries[cyc[t].raised[1]]["e1"] = 0 /\ delivered[cyc[t].raised[1]]["e1"] = 0
        /\ posted_entries[c]["e1"] # 0 /\ delivered[c]["e1"] = 1

\* how often an address is in the list of a user
Occurrences(uf, u, url) ==
    IF HasUser(uf, u)
    THEN Cardinality({k \in 1..Len(FeedsOf(uf, u)) : FeedsOf(uf, u)[k] = url})
    ELSE 0

\* C20: when /delete has removed an address from a user's list, the address is
\* no longer in that list, whatever /add commands came before
C20_RemovedSourceIsGone ==
    [][\A u \in Users, url \in Urls :
         Occurrences(user_feeds', u, url) < Occurrences(user_feeds, u, url) =>
            Occurrences(user_feeds', u, url) = 0]_vars
====
